---- MODULE Spec2Model ----
(***************************************************************************)
(* AVLTree<int> and TreePrinter of src/main.cpp.                           *)
(*                                                                         *)
(* Spec        : the ordered-set engine driven through its public          *)
(*               insert(v) / remove(v) calls, starting from the empty tree.*)
(* PrinterSpec : one TreePrinter (constructed, configured through its      *)
(*               setters, then printTree called) on an arbitrary binary    *)
(*               tree with arbitrary label lengths.                        *)
(***************************************************************************)
EXTENDS Integers, Sequences, FiniteSets, TLC

VARIABLES root,            \* AVLTree::root
          ref,             \* the mathematical set the same calls build
          last,            \* the latest public call: op, arg, tree before, rotations
          last2,           \* the public call before it
          squareBranches,  \* TreePrinter::squareBranches
          lrAgnostic,      \* TreePrinter::lrAgnostic
          hspace,          \* TreePrinter::hspace
          tree,            \* the tree handed to printTree
          treeLines,       \* printTree: the TreeLines buildTreeLines returned
          out,             \* the lines written to outStream
          printed          \* printTree has returned

avlVars == <<root, ref, last, last2>>
printerVars == <<squareBranches, lrAgnostic, hspace, tree, treeLines, out, printed>>
vars == <<root, ref, last, last2, squareBranches, lrAgnostic, hspace, tree, treeLines, out,
          printed>>

-----------------------------------------------------------------------------
(* Bounds *)

\* extra element values besides the ones main() uses
MaxExtra == 1

\* the label characters of a tree handed to printTree, summed over its nodes
MaxChars == 6

\* setHspace(1) .. setHspace(MaxHspace)
MaxHspace == 3

-----------------------------------------------------------------------------
(* AVLTree<T>, T = int *)

\* the values main() inserts
DemoValues == {10, 20, 30, 40, 50, 25}

Values == DemoValues \cup (1..MaxExtra)

\* nullptr
Nil == <<>>

Max(a, b) == IF a >= b THEN a ELSE b

\* Node(T val): left(nullptr), right(nullptr), height(1)
Node(val) == [value |-> val, left |-> Nil, right |-> Nil, height |-> 1]

height(node) == IF node # Nil THEN node.height ELSE 0

balanceFactor(node) ==
    IF node # Nil THEN height(node.left) - height(node.right) ELSE 0

updateHeight(node) ==
    IF node # Nil
    THEN [node EXCEPT !.height = 1 + Max(height(node.left), height(node.right))]
    ELSE node

\* a plausible slip: y adopts x's left subtree instead of x's right subtree
rotateRightWrongChild(y) ==
    LET x  == y.left
        y1 == updateHeight([y EXCEPT !.left = x.left])
    IN  updateHeight([x EXCEPT !.right = y1])

rotateRight(y) ==
    LET x  == y.left
        y1 == updateHeight([y EXCEPT !.left = x.right])
    IN  updateHeight([x EXCEPT !.right = y1])

rotateLeft(x) ==
    LET y  == x.right
        x1 == updateHeight([x EXCEPT !.right = y.left])
    IN  updateHeight([y EXCEPT !.left = x1])

\* a plausible slip: the Left-Right / Right-Left inner rotations are left out
balanceSingleOnly(node) ==
    IF node = Nil THEN Nil
    ELSE LET n  == updateHeight(node)
             bf == balanceFactor(n)
         IN  IF bf > 1 THEN rotateRight(n)
             ELSE IF bf < -1 THEN rotateLeft(n)
             ELSE n

\* a plausible slip: the thresholds are bf > 0 / bf < 0 instead of bf > 1 / bf < -1
balanceEager(node) ==
    IF node = Nil THEN Nil
    ELSE LET n  == updateHeight(node)
             bf == balanceFactor(n)
         IN  IF bf > 0
             THEN rotateRight(IF balanceFactor(n.left) < 0
                              THEN [n EXCEPT !.left = rotateLeft(n.left)]
                              ELSE n)
             ELSE IF bf < 0
             THEN rotateLeft(IF balanceFactor(n.right) > 0
                             THEN [n EXCEPT !.right = rotateRight(n.right)]
                             ELSE n)
             ELSE n

balance(node) ==
    IF node = Nil THEN Nil
    ELSE LET n  == updateHeight(node)
             bf == balanceFactor(n)
         IN  IF bf > 1
             THEN rotateRight(IF balanceFactor(n.left) < 0
                              THEN [n EXCEPT !.left = rotateLeft(n.left)]
                              ELSE n)
             ELSE IF bf < -1
             THEN rotateLeft(IF balanceFactor(n.right) > 0
                             THEN [n EXCEPT !.right = rotateRight(n.right)]
                             ELSE n)
             ELSE n

\* the number of rotateLeft / rotateRight calls balance(node) makes
balanceRotations(node) ==
    IF node = Nil THEN 0
    ELSE LET n  == updateHeight(node)
             bf == balanceFactor(n)
         IN  IF bf > 1 THEN (IF balanceFactor(n.left) < 0 THEN 2 ELSE 1)
             ELSE IF bf < -1 THEN (IF balanceFactor(n.right) > 0 THEN 2 ELSE 1)
             ELSE 0

RECURSIVE insert(_, _)
RECURSIVE insertRotations(_, _)
RECURSIVE findMin(_)
RECURSIVE remove(_, _)
RECURSIVE removeRotations(_, _)
RECURSIVE search(_, _)
RECURSIVE inorderTraversal(_)

\* a plausible slip: the "value already exists" branch is missing, equal
\* values go to the right
insertDuplicates(node, value) ==
    IF node = Nil THEN Node(value)
    ELSE IF value < node.value
         THEN balance([node EXCEPT !.left = insert(node.left, value)])
         ELSE balance([node EXCEPT !.right = insert(node.right, value)])

insert(node, value) ==
    IF node = Nil THEN Node(value)
    ELSE IF value < node.value
         THEN balance([node EXCEPT !.left = insert(node.left, value)])
         ELSE IF value > node.value
              THEN balance([node EXCEPT !.right = insert(node.right, value)])
              ELSE node

\* the rotations performed during insert(node, value)
insertRotations(node, value) ==
    IF node = Nil THEN 0
    ELSE IF value < node.value
         THEN insertRotations(node.left, value)
              + balanceRotations([node EXCEPT !.left = insert(node.left, value)])
         ELSE IF value > node.value
              THEN insertRotations(node.right, value)
                   + balanceRotations([node EXCEPT !.right = insert(node.right, value)])
              ELSE 0

\* a plausible slip: the loop follows right instead of left
findMax(node) ==
    IF node = Nil THEN Nil
    ELSE IF node.right # Nil THEN findMin(node.right) ELSE node

findMin(node) ==
    IF node = Nil THEN Nil
    ELSE IF node.left # Nil THEN findMin(node.left) ELSE node

\* a plausible slip: the subtree is reattached but balance is not applied
removeNoBalance(node, value) ==
    IF node = Nil THEN Nil
    ELSE IF value < node.value
         THEN [node EXCEPT !.left = remove(node.left, value)]
         ELSE IF value > node.value
              THEN [node EXCEPT !.right = remove(node.right, value)]
              ELSE IF node.left = Nil THEN node.right
              ELSE IF node.right = Nil THEN node.left
              ELSE LET successor == findMin(node.right)
                   IN  [node EXCEPT !.value = successor.value,
                                    !.right = remove(node.right, successor.value)]

remove(node, value) ==
    IF node = Nil THEN Nil
    ELSE IF value < node.value
         THEN balance([node EXCEPT !.left = remove(node.left, value)])
         ELSE IF value > node.value
              THEN balance([node EXCEPT !.right = remove(node.right, value)])
              ELSE IF node.left = Nil THEN node.right
              ELSE IF node.right = Nil THEN node.left
              ELSE LET successor == findMin(node.right)
                   IN  balance([node EXCEPT
                                  !.value = successor.value,
                                  !.right = remove(node.right, successor.value)])

\* the rotations performed during remove(node, value)
removeRotations(node, value) ==
    IF node = Nil THEN 0
    ELSE IF value < node.value
         THEN removeRotations(node.left, value)
              + balanceRotations([node EXCEPT !.left = remove(node.left, value)])
         ELSE IF value > node.value
              THEN removeRotations(node.right, value)
                   + balanceRotations([node EXCEPT !.right = remove(node.right, value)])
              ELSE IF node.left = Nil THEN 0
              ELSE IF node.right = Nil THEN 0
              ELSE LET successor == findMin(node.right)
                   IN  removeRotations(node.right, successor.value)
                       + balanceRotations([node EXCEPT
                                  !.value = successor.value,
                                  !.right = remove(node.right, successor.value)])

\* a plausible slip: the comparison of the descent is the wrong way round
searchMirrored(node, value) ==
    IF node = Nil THEN Nil
    ELSE IF value > node.value THEN search(node.left, value)
         ELSE IF value < node.value THEN search(node.right, value)
              ELSE node

search(node, value) ==
    IF node = Nil THEN Nil
    ELSE IF value < node.value THEN search(node.left, value)
         ELSE IF value > node.value THEN search(node.right, value)
              ELSE node

contains(value) == search(root, value) # Nil

\* the values in the order the visitor sees them
inorderTraversal(node) ==
    IF node = Nil THEN <<>>
    ELSE inorderTraversal(node.left) \o <<node.value>> \o inorderTraversal(node.right)

NoCall == [op |-> "none", arg |-> 0, before |-> Nil, rot |-> 0]

AVLInit ==
    /\ root = Nil
    /\ ref = {}
    /\ last = NoCall
    /\ last2 = NoCall

\* void insert(T value)
Insert(v) ==
    /\ root' = insert(root, v)
    /\ ref' = ref \cup {v}
    /\ last' = [op |-> "insert", arg |-> v, before |-> root,
                rot |-> insertRotations(root, v)]
    /\ last2' = last
    /\ UNCHANGED printerVars

\* void remove(const T& value)
Remove(v) ==
    /\ root' = remove(root, v)
    /\ ref' = ref \ {v}
    /\ last' = [op |-> "remove", arg |-> v, before |-> root,
                rot |-> removeRotations(root, v)]
    /\ last2' = last
    /\ UNCHANGED printerVars

-----------------------------------------------------------------------------
(* TreePrinter<T, NodeType> *)

\* std::string as the sequence of its characters
TreeLine(l, left, right) == [line |-> l, leftOffset |-> left, rightOffset |-> right]

Min(a, b) == IF a <= b THEN a ELSE b

spaces(n) == [i \in 1..Max(0, n) |-> " "]

\* std::string(n, c)
Repeat(n, c) == [i \in 1..n |-> c]

RECURSIVE minOffsetFrom(_, _, _)
minOffsetFrom(lines, i, minOffset) ==
    IF i > Len(lines) THEN minOffset
    ELSE minOffsetFrom(lines, i + 1, Min(minOffset, lines[i].leftOffset))

minLeftOffset(lines) ==
    IF lines = <<>> THEN 0 ELSE minOffsetFrom(lines, 1, lines[1].leftOffset)

RECURSIVE maxOffsetFrom(_, _, _)
maxOffsetFrom(lines, i, maxOffset) ==
    IF i > Len(lines) THEN maxOffset
    ELSE maxOffsetFrom(lines, i + 1, Max(maxOffset, lines[i].rightOffset))

maxRightOffset(lines) ==
    IF lines = <<>> THEN 0 ELSE maxOffsetFrom(lines, 1, lines[1].rightOffset)

\* what printTreeLines writes to outStream, one element per std::endl
printTreeLines(lines) ==
    LET minLeft  == minLeftOffset(lines)
        maxRight == maxRightOffset(lines)
    IN  [i \in 1..Len(lines) |->
            LET leftSpaces  == -(minLeft - lines[i].leftOffset)
                rightSpaces == maxRight - lines[i].rightOffset
            IN  spaces(leftSpaces) \o lines[i].line \o spaces(rightSpaces)]

(* size_t: 64-bit unsigned, kept as four 16-bit limbs, least significant first *)
Limb == 2^16

U64(n) == <<n % Limb, (n \div Limb) % Limb, 0, 0>>

\* a + b mod 2^64
U64Add(a, b) ==
    LET s1 == a[1] + b[1]
        s2 == a[2] + b[2] + s1 \div Limb
        s3 == a[3] + b[3] + s2 \div Limb
        s4 == a[4] + b[4] + s3 \div Limb
    IN  <<s1 % Limb, s2 % Limb, s3 % Limb, s4 % Limb>>

\* unary minus on size_t: 2^64 - a mod 2^64
U64Neg(a) ==
    U64Add(<<Limb - 1 - a[1], Limb - 1 - a[2], Limb - 1 - a[3], Limb - 1 - a[4]>>,
           U64(1))

U64Sub(a, b) == U64Add(a, U64Neg(b))

\* a / 2
U64Half(a) ==
    << a[1] \div 2 + (a[2] % 2) * (Limb \div 2),
       a[2] \div 2 + (a[3] % 2) * (Limb \div 2),
       a[3] \div 2 + (a[4] % 2) * (Limb \div 2),
       a[4] \div 2 >>

\* size_t to int: the low 32 bits, two's complement
U64ToInt(a) ==
    IF a[2] >= Limb \div 2 THEN (a[2] - Limb) * Limb + a[1] ELSE a[2] * Limb + a[1]

\* -(rootLabel.length() - 1) / 2 passed as int left
rootLeftOffset(length) == U64ToInt(U64Half(U64Neg(U64Sub(U64(length), U64(1)))))

\* rootLabel.length() / 2 passed as int right
rootRightOffset(length) == U64ToInt(U64Half(U64(length)))

RECURSIVE maxSpacingFrom(_, _, _, _)
maxSpacingFrom(leftTreeLines, rightTreeLines, i, maxRootSpacing) ==
    IF i > Min(Len(leftTreeLines), Len(rightTreeLines)) THEN maxRootSpacing
    ELSE maxSpacingFrom(leftTreeLines, rightTreeLines, i + 1,
                        Max(maxRootSpacing,
                            leftTreeLines[i].rightOffset - rightTreeLines[i].leftOffset))

\* a plausible slip: hspace is not added
rootSpacingNoHspace(leftTreeLines, rightTreeLines) ==
    LET rs == maxSpacingFrom(leftTreeLines, rightTreeLines, 1, 0)
    IN  IF rs % 2 = 0 THEN rs + 1 ELSE rs

rootSpacing(leftTreeLines, rightTreeLines) ==
    LET rs == maxSpacingFrom(leftTreeLines, rightTreeLines, 1, 0) + hspace
    IN  IF rs % 2 = 0 THEN rs + 1 ELSE rs

\* the branch rows under the root line, with leftTreeAdjust and rightTreeAdjust
branches(leftTreeLines, rightTreeLines, rs) ==
    IF leftTreeLines = <<>>
    THEN IF rightTreeLines # <<>>
         THEN IF squareBranches
              THEN IF lrAgnostic
                   THEN [rows |-> <<TreeLine(<<"|">>, 0, 0)>>,
                         leftTreeAdjust |-> 0, rightTreeAdjust |-> 0]
                   ELSE [rows |-> <<TreeLine(<<"+", "-", "-", "+">>, 0, 3)>>,
                         leftTreeAdjust |-> 0, rightTreeAdjust |-> 3]
              ELSE [rows |-> <<TreeLine(<<"\\">>, 1, 1)>>,
                    leftTreeAdjust |-> 0, rightTreeAdjust |-> 2]
         ELSE [rows |-> <<>>, leftTreeAdjust |-> 0, rightTreeAdjust |-> 0]
    ELSE IF rightTreeLines = <<>>
    THEN IF squareBranches
         THEN IF lrAgnostic
              THEN [rows |-> <<TreeLine(<<"|">>, 0, 0)>>,
                    leftTreeAdjust |-> 0, rightTreeAdjust |-> 0]
              ELSE [rows |-> <<TreeLine(<<"+", "-", "-", "+">>, -3, 0)>>,
                    leftTreeAdjust |-> -3, rightTreeAdjust |-> 0]
         ELSE [rows |-> <<TreeLine(<<"/">>, -1, -1)>>,
               leftTreeAdjust |-> -2, rightTreeAdjust |-> 0]
    ELSE IF squareBranches
    THEN LET adjust     == (rs \div 2) + 1
             horizontal == Repeat(rs \div 2, "-")
             branch     == <<"+">> \o horizontal \o <<"+">> \o horizontal \o <<"+">>
         IN  [rows |-> <<TreeLine(branch, -adjust, adjust)>>,
              leftTreeAdjust |-> -adjust, rightTreeAdjust |-> adjust]
    ELSE IF rs = 1
    THEN [rows |-> <<TreeLine(<<"/", " ", "\\">>, -1, 1)>>,
          leftTreeAdjust |-> -2, rightTreeAdjust |-> 2]
    ELSE [rows |-> [k \in 1..(rs \div 2) |->
                      LET i == 2 * k - 1
                      IN  TreeLine(<<"/">> \o spaces(i) \o <<"\\">>,
                                   -((i + 1) \div 2), (i + 1) \div 2)],
          leftTreeAdjust |-> -((rs \div 2) + 1),
          rightTreeAdjust |-> (rs \div 2) + 1]

\* the "Join lines of subtrees" loop
joinLines(leftTreeLines, rightTreeLines, rs, leftTreeAdjust, rightTreeAdjust) ==
    [j \in 1..Max(Len(leftTreeLines), Len(rightTreeLines)) |->
        IF j > Len(leftTreeLines)
        THEN TreeLine(rightTreeLines[j].line,
                      rightTreeLines[j].leftOffset + rightTreeAdjust,
                      rightTreeLines[j].rightOffset + rightTreeAdjust)
        ELSE IF j > Len(rightTreeLines)
        THEN TreeLine(leftTreeLines[j].line,
                      leftTreeLines[j].leftOffset + leftTreeAdjust,
                      leftTreeLines[j].rightOffset + leftTreeAdjust)
        ELSE LET leftLine  == leftTreeLines[j]
                 rightLine == rightTreeLines[j]
                 adjustedRootSpacing ==
                     IF rs = 1 THEN (IF squareBranches THEN 1 ELSE 3) ELSE rs
             IN  TreeLine(leftLine.line
                            \o spaces(adjustedRootSpacing - leftLine.rightOffset
                                      + rightLine.leftOffset)
                            \o rightLine.line,
                          leftLine.leftOffset + leftTreeAdjust,
                          rightLine.rightOffset + rightTreeAdjust)]

RECURSIVE buildTreeLines(_)
buildTreeLines(node) ==
    IF node = Nil THEN <<>>
    ELSE LET rootLabel      == node.label
             leftTreeLines  == buildTreeLines(node.left)
             rightTreeLines == buildTreeLines(node.right)
             rs             == rootSpacing(leftTreeLines, rightTreeLines)
             br             == branches(leftTreeLines, rightTreeLines, rs)
         IN  <<TreeLine(rootLabel, rootLeftOffset(Len(rootLabel)),
                        rootRightOffset(Len(rootLabel)))>>
             \o br.rows
             \o joinLines(leftTreeLines, rightTreeLines, rs,
                          br.leftTreeAdjust, br.rightTreeAdjust)

(* the trees and labels a caller can hand to printTree *)
PNode(label, l, r) == [label |-> label, left |-> l, right |-> r]

\* all binary trees whose labels have n characters in total, every label
\* with at least one character
RECURSIVE TreesOfChars(_)
TreesOfChars(n) ==
    IF n = 0 THEN {Nil}
    ELSE UNION { UNION { { PNode(Repeat(len, "x"), l, r) :
                             l \in TreesOfChars(k), r \in TreesOfChars(n - len - k) } :
                         k \in 0..(n - len) } :
                 len \in 1..n }

InputTrees == UNION { TreesOfChars(n) : n \in 0..MaxChars }

PrinterInit ==
    /\ squareBranches = FALSE
    /\ lrAgnostic = FALSE
    /\ hspace = 2
    /\ treeLines = <<>>
    /\ out = <<>>
    /\ printed = FALSE

\* A TreePrinter lives for one printTree call (AVLTree::print constructs it,
\* sets the options and prints): the setters act before the call.
setSquareBranches(value) ==
    /\ ~printed
    /\ squareBranches' = value
    /\ UNCHANGED <<lrAgnostic, hspace, tree, treeLines, out, printed>>
    /\ UNCHANGED avlVars

setLrAgnostic(value) ==
    /\ ~printed
    /\ lrAgnostic' = value
    /\ UNCHANGED <<squareBranches, hspace, tree, treeLines, out, printed>>
    /\ UNCHANGED avlVars

setHspace(value) ==
    /\ ~printed
    /\ hspace' = value
    /\ UNCHANGED <<squareBranches, lrAgnostic, tree, treeLines, out, printed>>
    /\ UNCHANGED avlVars

\* void printTree(const NodeType* root)
printTree ==
    /\ ~printed
    /\ treeLines' = buildTreeLines(tree)
    /\ out' = printTreeLines(buildTreeLines(tree))
    /\ printed' = TRUE
    /\ UNCHANGED <<squareBranches, lrAgnostic, hspace, tree>>
    /\ UNCHANGED avlVars

-----------------------------------------------------------------------------
(* Specifications *)

Init == AVLInit /\ PrinterInit /\ tree = Nil

Next ==
    \/ \E v \in Values : Insert(v)
    \/ \E v \in Values : Remove(v)

Spec == Init /\ [][Next]_vars

PrinterStart == AVLInit /\ PrinterInit /\ tree \in InputTrees

PrinterNext ==
    \/ \E value \in BOOLEAN : setSquareBranches(value)
    \/ \E value \in BOOLEAN : setLrAgnostic(value)
    \/ \E value \in 1..MaxHspace : setHspace(value)
    \/ printTree

PrinterSpec == PrinterStart /\ [][PrinterNext]_vars

-----------------------------------------------------------------------------
(* Properties of the ordered-set engine, checked under Spec *)

RECURSIVE StructHeight(_)
StructHeight(node) ==
    IF node = Nil THEN 0
    ELSE 1 + Max(StructHeight(node.left), StructHeight(node.right))

RECURSIVE ValuesOf(_)
ValuesOf(node) ==
    IF node = Nil THEN {}
    ELSE ValuesOf(node.left) \cup {node.value} \cup ValuesOf(node.right)

RECURSIVE Size(_)
Size(node) == IF node = Nil THEN 0 ELSE 1 + Size(node.left) + Size(node.right)

RECURSIVE Balanced(_)
Balanced(node) ==
    \/ node = Nil
    \/ /\ StructHeight(node.left) - StructHeight(node.right) \in {-1, 0, 1}
       /\ Balanced(node.left)
       /\ Balanced(node.right)

RECURSIVE Ordered(_)
Ordered(node) ==
    \/ node = Nil
    \/ /\ \A v \in ValuesOf(node.left) : v < node.value
       /\ \A v \in ValuesOf(node.right) : v > node.value
       /\ Ordered(node.left)
       /\ Ordered(node.right)

StrictlyAscending(s) == \A i \in 1..(Len(s) - 1) : s[i] < s[i + 1]

SetMin(S) == CHOOSE m \in S : \A x \in S : m <= x

\* a tree written out by hand, heights as the shape gives them
Tr(v, l, r) == [value |-> v, left |-> l, right |-> r,
                height |-> 1 + Max(StructHeight(l), StructHeight(r))]

\* C1: after every sequence of public insert / remove calls every node's two
\* subtrees differ in structural height by at most one.
C1_AVLBalance == Balanced(root)

\* C1 witness: a removal that had to rotate has just been made on a tree of
\* height 3 or more.
C1_Witness ==
    /\ last.op = "remove"
    /\ last.rot > 0
    /\ StructHeight(last.before) >= 3
    /\ Balanced(root)

\* C2: after every sequence of public insert / remove calls the tree is a strict
\* binary search tree: left values below, right values above at every node, no
\* value stored twice, in-order visit strictly ascending.
C2_StrictBST ==
    /\ Ordered(root)
    /\ StrictlyAscending(inorderTraversal(root))
    /\ Len(inorderTraversal(root)) = Cardinality(ValuesOf(root))

\* C2 witness: a call that rotated twice left a six-node search tree.
C2_Witness ==
    /\ last.rot >= 2
    /\ Size(root) >= 6
    /\ Ordered(root)

\* C3: contains(v) is true exactly for the values of the reference set built by
\* the same insert / remove calls.
C3_ContainsMatchesSet == \A v \in Values : contains(v) <=> v \in ref

\* C3 witness: after a removal that took a value out, some values are contained
\* and some are not.
C3_Witness ==
    /\ last.op = "remove"
    /\ last.arg \in ValuesOf(last.before)
    /\ ~contains(last.arg)
    /\ \E v \in Values : contains(v) /\ v \in ref
    /\ Cardinality(ref) >= 3

\* insert(v) of a value not in the tree, directly followed by remove(v)
InsertThenRemove ==
    /\ last2.op = "insert"
    /\ last.op = "remove"
    /\ last.arg = last2.arg
    /\ last2.arg \notin ValuesOf(last2.before)

\* C4 as stated: insert(v) then remove(v), v not in T, gives back T structurally.
C4_RoundTripIdentical == InsertThenRemove => root = last2.before

\* C4 amended: insert(v) then remove(v), v not in T, leaves a tree with exactly
\* the values of T in the same in-order sequence; it is structurally identical
\* to T (shape, values, stored heights) when insert(v) performed no rotation.
C4_RoundTripAmended ==
    InsertThenRemove =>
        /\ inorderTraversal(root) = inorderTraversal(last2.before)
        /\ last2.rot = 0 => root = last2.before

\* C4 witness: a rotation-free insert into a tree of height 2 or more, then
\* the removal of the same value.
C4_Witness ==
    /\ InsertThenRemove
    /\ last2.rot = 0
    /\ StructHeight(last2.before) >= 2
    /\ root = last2.before

\* C5: inserting v twice in a row gives the tree that inserting it once gives,
\* and insert(v) of a value already present changes nothing.
C5_InsertIdempotent ==
    /\ (last.op = "insert" /\ last2.op = "insert" /\ last.arg = last2.arg)
          => root = last.before
    /\ (last.op = "insert" /\ last.arg \in ValuesOf(last.before))
          => (root = last.before /\ last.rot = 0)

\* C5 witness: the same value inserted twice in a row, below the root of a tree
\* with three or more nodes.
C5_Witness ==
    /\ last.op = "insert"
    /\ last2.op = "insert"
    /\ last.arg = last2.arg
    /\ Size(root) >= 3
    /\ root.value # last.arg

\* C6: remove(v) of a value not stored leaves every node as it was (shape,
\* value, stored height) and performs no rotation.
C6_RemoveAbsentIdentity ==
    (last.op = "remove" /\ last.arg \notin ValuesOf(last.before))
        => (root = last.before /\ last.rot = 0)

\* C6 witness: an absent value removed from a tree of height 3.
C6_Witness ==
    /\ last.op = "remove"
    /\ last.arg \notin ValuesOf(last.before)
    /\ StructHeight(last.before) >= 3
    /\ root = last.before

\* insert 10, 20, 30, 40, 50, 25 in this order, as main() does
Scenario4Built ==
    insert(insert(insert(insert(insert(insert(Nil, 10), 20), 30), 40), 50), 25)

\* root 30, left 20 with children 10 and 25, right 40 with right child 50
Scenario4Tree ==
    Tr(30, Tr(20, Tr(10, Nil, Nil), Tr(25, Nil, Nil)),
           Tr(40, Nil, Tr(50, Nil, Nil)))

\* root 40, left subtree unchanged, right subtree the single node 50
Scenario5Tree ==
    Tr(40, Tr(20, Tr(10, Nil, Nil), Tr(25, Nil, Nil)), Tr(50, Nil, Nil))

\* the node remove(v) hits in the tree it was called on
HitNode == search(last.before, last.arg)

TwoChildRemoval ==
    /\ last.op = "remove"
    /\ HitNode # Nil
    /\ HitNode.left # Nil
    /\ HitNode.right # Nil

\* C7: a removal that hits a node with two children overwrites the node's value
\* with the smallest value of its right subtree and removes that value from the
\* right subtree (then rebalances the node); the removed value is the only one
\* that leaves the tree.  From the tree of 10, 20, 30, 40, 50, 25, remove(30)
\* gives root 40, right subtree the single node 50, left subtree unchanged.
C7_SuccessorRemoval ==
    /\ Scenario4Built = Scenario4Tree
    /\ (last.op = "remove" /\ last.before = Scenario4Tree /\ last.arg = 30)
          => root = Scenario5Tree
    /\ TwoChildRemoval =>
          LET m == SetMin(ValuesOf(HitNode.right))
          IN  /\ remove(HitNode, last.arg)
                   = balance([HitNode EXCEPT !.value = m,
                                             !.right = remove(HitNode.right, m)])
              /\ ValuesOf(root) = ValuesOf(last.before) \ {last.arg}
              /\ last.before.value = last.arg =>
                    root = balance([last.before EXCEPT
                                       !.value = m,
                                       !.right = remove(last.before.right, m)])

\* C7 witness: remove(30) has just been called on the tree of scenario 4.
C7_Witness ==
    /\ TwoChildRemoval
    /\ last.before = Scenario4Tree
    /\ last.arg = 30
    /\ root.value = 40
    /\ root.right = Node(50)

-----------------------------------------------------------------------------
(* Properties of the renderer, checked under PrinterSpec *)

\* C8 as stated: all lines written by one printTree call have the same length.
C8_LinesSameLength ==
    printed => \A i, j \in DOMAIN out : Len(out[i]) = Len(out[j])

\* the TreeLines of the two subtrees of the printed tree
LeftLines == buildTreeLines(tree.left)
RightLines == buildTreeLines(tree.right)

BothSubtrees == printed /\ tree # Nil /\ tree.left # Nil /\ tree.right # Nil

\* the rows both subtrees occupy
SharedRows == 1..Min(Len(LeftLines), Len(RightLines))

\* the merged row j of the printed tree: it follows the root line and the
\* branch rows
MergedRow(j) ==
    treeLines[Len(treeLines) - Max(Len(LeftLines), Len(RightLines)) + j]

\* the blank columns between the left subtree's text and the right subtree's
\* text on shared row j
Gap(j) == Len(MergedRow(j).line) - Len(LeftLines[j].line) - Len(RightLines[j].line)

\* the gap on the tightest row
TightestGap == CHOOSE g \in {Gap(j) : j \in SharedRows} : \A j \in SharedRows : g <= Gap(j)

\* the largest L[i].rightOffset - R[i].leftOffset over the shared rows
LargestOverlap ==
    CHOOSE s \in {LeftLines[j].rightOffset - RightLines[j].leftOffset : j \in SharedRows} :
        \A j \in SharedRows : s >= LeftLines[j].rightOffset - RightLines[j].leftOffset

\* C9 as stated: with hspace = k the gap on the tightest row is exactly k.
C9_TightestGapExactlyK == BothSubtrees => TightestGap = hspace

\* C9 amended: with hspace = k the gap on the tightest row is at least k and at
\* most k + 2: it is k + 1 when the largest overlap plus k is even (rootSpacing
\* is raised to the next odd number), 3 instead of 1 when rootSpacing is 1 and
\* the branches are sloped, and k otherwise.
C9_TightestGapAtLeastK ==
    BothSubtrees =>
        /\ TightestGap >= hspace
        /\ TightestGap <= hspace + 2
        /\ TightestGap =
             IF LargestOverlap + hspace = 1 /\ ~squareBranches THEN 3
             ELSE IF (LargestOverlap + hspace) % 2 = 0 THEN hspace + 1
             ELSE hspace

\* C9 witness: a printed tree whose subtrees share three rows or more, the
\* tightest of them not the first, with a gap of exactly hspace.
C9_Witness ==
    /\ BothSubtrees
    /\ Cardinality(SharedRows) >= 3
    /\ Gap(1) > TightestGap
    /\ TightestGap = hspace

\* C10 as stated: the root TreeLine of a node whose label has len >= 1
\* characters has leftOffset = -floor((len-1)/2) and rightOffset = floor(len/2).
C10_RootLineOffsets ==
    (printed /\ tree # Nil /\ Len(tree.label) >= 1) =>
        /\ treeLines[1].leftOffset = -((Len(tree.label) - 1) \div 2)
        /\ treeLines[1].rightOffset = Len(tree.label) \div 2

====
